---- MODULE Spec2Model ----
(***************************************************************************)
(* Model of the command core of bababot: the time-string parser, the       *)
(* command parser with its authorization gates, and the command executor   *)
(* acting on the platform gateway.                                         *)
(*                                                                         *)
(* Text is a sequence of one-character strings, so that prefix tests,      *)
(* splitting, joining and number parsing are computed character by         *)
(* character as the Rust code computes them.                               *)
(***************************************************************************)
EXTENDS Integers, Sequences, FiniteSets, TLC

VARIABLES
    pc,        \* position of the message handler: "idle", "parse", "exec", "done", "aborted"
    text,      \* content of the message being handled
    actor,     \* id of the author of the message
    origin,    \* MessageOrigin of the message: "PublicChannel" or "PrivateChannel"
    modq,      \* outcome of the lookups made by user_is_mod for this message
    cmd,       \* the Command returned by parse_from_message
    result,    \* outcome of the handling: "none", "ok", "err", "panic", "abort"
    guild,     \* members of the guild
    banned,    \* users banned from the guild
    muted,     \* users whose communication is disabled
    log,       \* gateway effects performed while handling the current message
    fault,     \* number of the gateway request that the platform failed, 0 if none
    gated,     \* result of a gate applied to cmd on its own
    s,         \* input of Time::from_str
    parsed,    \* result of Time::from_str on s (NotCalled before the call)
    ctype,     \* result of CommandType::from_str on text ("NotCalled" before the call)
    comic,     \* result of xkcd_from_string on text (-1 before the call)
    blacklist, \* content of the file src\blacklist.txt
    task,      \* per task running blacklist_user: its position, its user, the lines it read
    cases,     \* ids of the rows of the table cases
    cf,        \* the last casefile action and its outcome
    data,      \* per row of the table cases, the text of its column data
    casefile   \* result of CaseFile::from_str on text (NotParsed before the call)

vars == <<pc, text, actor, origin, modq, cmd, result, guild, banned, muted, log, fault,
          gated, s, parsed, ctype, comic, blacklist, task, cases, cf, data, casefile>>

worldVars == <<guild, banned, muted>>
timeVars == <<s, parsed>>
fnVars == <<ctype, comic>>
storeVars == <<blacklist, task, cases, cf, data, casefile>>

(***************************************************************************)
(* Bounds                                                                  *)
(***************************************************************************)
\* largest number of argument tokens after the leading token of a message
MaxArgs == 3
\* largest number of <number><unit> pieces in a duration string
MaxPairs == 2
\* numbers 0..MaxNum are each tried as the magnitude of a single piece
MaxNum == 259
\* bounds 0..MaxBound are each given to -randint
MaxBound == 3
\* blacklist_user is called while the blacklist has fewer than MaxLines lines
MaxLines == 3
MaxItems == 2

(***************************************************************************)
(* Characters and strings                                                  *)
(***************************************************************************)
Upper == <<"A","B","C","D","E","F","G","H","I","J","K","L","M",
           "N","O","P","Q","R","S","T","U","V","W","X","Y","Z">>
Lower == <<"a","b","c","d","e","f","g","h","i","j","k","l","m",
           "n","o","p","q","r","s","t","u","v","w","x","y","z">>
DigitChars == <<"0","1","2","3","4","5","6","7","8","9">>

Range(f) == {f[i] : i \in DOMAIN f}

\* char::is_alphabetic
is_alphabetic(c) == c \in Range(Upper) \cup Range(Lower)

\* char::is_whitespace
is_whitespace(c) == c \in {" ", "\n", "\t"}

IsDigit(c) == c \in Range(DigitChars)

DigitVal(c) == (CHOOSE i \in 1..10 : DigitChars[i] = c) - 1

\* char lower-casing, as str::to_lowercase applies it to each character
LowerChar(c) ==
    IF c \in Range(Upper) THEN Lower[CHOOSE i \in 1..26 : Upper[i] = c] ELSE c

\* str::to_lowercase
to_lowercase(str) == [i \in 1..Len(str) |-> LowerChar(str[i])]

\* str::starts_with
starts_with(str, pre) ==
    /\ Len(str) >= Len(pre)
    /\ SubSeq(str, 1, Len(pre)) = pre

\* str::strip_prefix followed by unwrap_or(str)
strip_prefix_or(str, pre) ==
    IF starts_with(str, pre) THEN SubSeq(str, Len(pre) + 1, Len(str)) ELSE str

\* str::contains
Contains(str, sub) ==
    \E i \in 0..(Len(str) - Len(sub)) : SubSeq(str, i + 1, i + Len(sub)) = sub

\* str::split(pred): the pieces between the characters of seps; always at
\* least one piece, empty pieces kept
RECURSIVE SplitOn(_, _, _)
SplitOn(str, seps, cur) ==
    IF str = <<>> THEN <<cur>>
    ELSE IF Head(str) \in seps
         THEN <<cur>> \o SplitOn(Tail(str), seps, <<>>)
         ELSE SplitOn(Tail(str), seps, Append(cur, Head(str)))

split(str, seps) == SplitOn(str, seps, <<>>)

\* str::split_inclusive(pred): each piece ends with its terminator; no
\* trailing empty piece, and no piece at all for the empty string
RECURSIVE SplitInclusiveOn(_, _, _)
SplitInclusiveOn(str, seps, cur) ==
    IF str = <<>> THEN (IF cur = <<>> THEN <<>> ELSE <<cur>>)
    ELSE IF Head(str) \in seps
         THEN <<Append(cur, Head(str))>> \o SplitInclusiveOn(Tail(str), seps, <<>>)
         ELSE SplitInclusiveOn(Tail(str), seps, Append(cur, Head(str)))

\* mutant: str::split in place of str::split_inclusive, the terminators dropped
split_exclusive(str, seps) == SplitOn(str, seps, <<>>)

split_inclusive(str, seps) == SplitInclusiveOn(str, seps, <<>>)

\* [&str]::join(" ")
RECURSIVE JoinSpace(_)
JoinSpace(v) ==
    IF v = <<>> THEN <<>>
    ELSE IF Len(v) = 1 THEN v[1]
    ELSE v[1] \o <<" ">> \o JoinSpace(Tail(v))

\* the characters of str that satisfy / do not satisfy is_alphabetic, in order
RECURSIVE Filter(_, _)
Filter(str, keepAlpha) ==
    IF str = <<>> THEN <<>>
    ELSE IF is_alphabetic(Head(str)) = keepAlpha
         THEN <<Head(str)>> \o Filter(Tail(str), keepAlpha)
         ELSE Filter(Tail(str), keepAlpha)

(***************************************************************************)
(* Unsigned integer parsing (str::parse::<uN>): an optional leading "+",   *)
(* then one or more decimal digits; the value must fit the width.  The     *)
(* widths above 8 bits cannot overflow on the words of this model, whose   *)
(* numbers have fewer than ten digits.                                     *)
(***************************************************************************)
U8Max == 255

RECURSIVE DigitsValue(_, _, _)
\* left to right accumulation with the overflow test of the integer parser;
\* -1 stands for the error result
DigitsValue(ds, acc, max) ==
    IF ds = <<>> THEN acc
    ELSE IF ~IsDigit(Head(ds)) THEN -1
    ELSE LET v == acc * 10 + DigitVal(Head(ds))
         IN  IF max >= 0 /\ v > max THEN -1
             ELSE DigitsValue(Tail(ds), v, max)

\* max < 0 stands for a width that the model's words never exceed
parse_uint(str, max) ==
    LET body == IF str # <<>> /\ Head(str) = "+" THEN Tail(str) ELSE str
        v    == IF body = <<>> THEN -1 ELSE DigitsValue(body, 0, max)
    IN  [ok |-> v >= 0, val |-> IF v >= 0 THEN v ELSE 0]

parse_u8(str)  == parse_uint(str, U8Max)
parse_u32(str) == parse_uint(str, -1)
parse_u64(str) == parse_uint(str, -1)

\* decimal rendering of a natural number (format!("{}", n))
RECURSIVE Decimal(_)
Decimal(n) ==
    IF n < 10 THEN <<DigitChars[n + 1]>>
    ELSE Decimal(n \div 10) \o <<DigitChars[(n % 10) + 1]>>

(***************************************************************************)
(* Time and Time::from_str                                                 *)
(***************************************************************************)
\* Time::default()
TimeDefault == [seconds |-> 0, minutes |-> 0, hours |-> 0, days |-> 0]

TimeOk(t) == [ok |-> TRUE, time |-> t, err |-> "none", chr |-> "", str |-> <<>>]
TimeErr(e, c, str) == [ok |-> FALSE, time |-> TimeDefault, err |-> e, chr |-> c, str |-> str]

allowed_chars == {"s", "m", "h", "d"}

\* one iteration of the loop of Time::from_str on the piece `each`
TimeStep(time, each) ==
    LET time_change == Filter(each, FALSE)
        duration    == Filter(each, TRUE)
        val         == parse_u8(time_change)
        unit        == IF duration = <<>> THEN "\\" ELSE Head(duration)
    IN  IF val.ok
        THEN CASE unit = "s"  -> TimeOk([time EXCEPT !.seconds = val.val])
               [] unit = "m"  -> TimeOk([time EXCEPT !.minutes = val.val])
               [] unit = "h"  -> TimeOk([time EXCEPT !.hours = val.val])
               [] unit = "d"  -> TimeOk([time EXCEPT !.days = val.val])
               [] unit = "\\" -> TimeErr("NoTimeSpecifier", "", <<>>)
               [] OTHER       -> TimeErr("InvalidTimeSpecifier", unit, <<>>)
        ELSE TimeErr("ParseIntError", "", time_change)

RECURSIVE TimeLoop(_, _)
TimeLoop(time, pieces) ==
    IF pieces = <<>> THEN TimeOk(time)
    ELSE LET r == TimeStep(time, Head(pieces))
         IN  IF r.ok THEN TimeLoop(r.time, Tail(pieces)) ELSE r

Time_from_str(str) == TimeLoop(TimeDefault, split_inclusive(str, allowed_chars))

(***************************************************************************)
(* Constants of the bot                                                    *)
(***************************************************************************)
PREFIX == <<"-">>

\* User identities.  The 64-bit ids of the source are abstracted to small
\* numbers: CAMILA is the developer, ModUser carries STAFF_ROLE, PlainUser
\* is an ordinary guild member, Stranger is an id that never joins the guild.
CAMILA == 3
ModUser == 2
PlainUser == 1
Stranger == 9

Actors == {CAMILA, ModUser, PlainUser}
\* members that hold STAFF_ROLE in BABACORD_ID
Staff == {ModUser}
\* the guild when the bot starts
InitialGuild == {CAMILA, ModUser, PlainUser}

(***************************************************************************)
(* CommandType and its FromStr                                             *)
(***************************************************************************)
Kw_ban == <<"b","a","n">>
Kw_mute == <<"m","u","t","e">>
Kw_notice == <<"n","o","t","i","c","e">>
Kw_private == <<"p","r","i","v","a","t","e">>
Kw_pvm == <<"p","v","m">>
Kw_xkcd == <<"x","k","c","d">>
Kw_dontasktoask == <<"d","o","n","t","a","s","k","t","o","a","s","k">>
Kw_da2a == <<"d","a","2","a">>
Kw_help == <<"h","e","l","p">>
Kw_suggest == <<"s","u","g","g","e","s","t">>
Kw_dev == <<"d","e","v">>
Kw_coinflip == <<"c","o","i","n","f","l","i","p">>
Kw_flip == <<"f","l","i","p">>
Kw_randint == <<"r","a","n","d","i","n","t">>
Kw_rand == <<"r","a","n","d">>

CommandType_from_str(str) ==
    LET binding == split(strip_prefix_or(str, <<"-">>), {" ", "\n"})
        prefix  == to_lowercase(binding[1])
    IN  CASE prefix = Kw_ban -> "Ban"
          [] prefix = Kw_mute -> "Mute"
          [] prefix = Kw_notice -> "Notice"
          [] prefix \in {Kw_private, Kw_pvm} -> "PrivateModMessage"
          [] prefix = Kw_xkcd -> "Xkcd"
          [] prefix \in {Kw_dontasktoask, Kw_da2a} -> "DontAskToAsk"
          [] prefix = Kw_help -> "Help"
          [] prefix = Kw_suggest -> "Suggestion"
          [] prefix = Kw_dev -> "Dev"
          [] prefix \in {Kw_coinflip, Kw_flip} -> "CoinFlip"
          [] prefix \in {Kw_randint, Kw_rand} -> "RandomInt"
          [] OTHER -> "NotValid"

(***************************************************************************)
(* xkcd_from_string and vec_string_to_string                               *)
(***************************************************************************)
Xk_tautology == <<"t","a","u","t","o","l","o","g","y">>
Xk_tautological == <<"t","a","u","t","o","l","o","g","i","c","a","l">>
Xk_honor_society == <<"h","o","n","o","r"," ","s","o","c","i","e","t","y">>
Xk_python == <<"p","y","t","h","o","n">>
Xk_import_antigravity == <<"i","m","p","o","r","t"," ","a","n","t","i","g","r","a","v","i","t","y">>
Xk_antigravity == <<"a","n","t","i","g","r","a","v","i","t","y">>
Xk_haskell == <<"h","a","s","k","e","l","l">>
Xk_side_effects == <<"s","i","d","e"," ","e","f","f","e","c","t","s">>
Xk_trolley_problem == <<"t","r","o","l","l","e","y"," ","p","r","o","b","l","e","m">>
Xk_linux == <<"l","i","n","u","x">>
Xk_OS == <<"O","S">>

xkcd_from_string(string) ==
    LET val == parse_u32(string)
        low == to_lowercase(string)
    IN  IF val.ok THEN val.val
        ELSE CASE low \in {Xk_tautology, Xk_tautological, Xk_honor_society} -> 703
               [] low \in {Xk_python, Xk_import_antigravity, Xk_antigravity} -> 353
               [] low \in {Xk_haskell, Xk_side_effects} -> 1312
               [] low = Xk_trolley_problem -> 1455
               [] low \in {Xk_linux, Xk_OS} -> 272
               [] OTHER -> 404

\* vec_string_to_string(vector, Some(index)): the tokens from position index
\* (0-based) on, joined with single spaces.  The slice panics when index
\* exceeds the length; every caller reaches it with index <= length.
vec_string_to_string(vector, index) ==
    JoinSpace(SubSeq(vector, index + 1, Len(vector)))

(***************************************************************************)
(* UserId::from_str (serenity): a mention <@id> or <@!id>, else a u64      *)
(***************************************************************************)
parse_username(mention) ==
    IF Len(mention) < 4 THEN [ok |-> FALSE, val |-> 0]
    ELSE IF starts_with(mention, <<"<", "@", "!">>)
         THEN parse_u64(SubSeq(mention, 4, Len(mention) - 1))
    ELSE IF starts_with(mention, <<"<", "@">>)
         THEN parse_u64(SubSeq(mention, 3, Len(mention) - 1))
    ELSE [ok |-> FALSE, val |-> 0]

UserId_from_str(str) ==
    LET m == parse_username(str)
    IN  IF m.ok THEN m ELSE parse_u64(str)

(***************************************************************************)
(* Command                                                                 *)
(***************************************************************************)
Cmd(kind, user, time, txt, num, sub) ==
    [kind |-> kind, user |-> user, time |-> time, text |-> txt, num |-> num, sub |-> sub]

Ban(user, reason)        == Cmd("Ban", user, TimeDefault, reason, 0, "")
Mute(user, time, reason) == Cmd("Mute", user, time, reason, 0, "")
Notice(message)          == Cmd("Notice", 0, TimeDefault, message, 0, "")
PrivateModMessage(message, user) == Cmd("PrivateModMessage", user, TimeDefault, message, 0, "")
Xkcd(id)                 == Cmd("Xkcd", 0, TimeDefault, <<>>, id, "")
DontAskToAsk             == Cmd("DontAskToAsk", 0, TimeDefault, <<>>, 0, "")
Help(sub)                == Cmd("Help", 0, TimeDefault, <<>>, 0, sub)
Suggestion(suggestion)   == Cmd("Suggestion", 0, TimeDefault, suggestion, 0, "")
NotValid(reason)         == Cmd("NotValid", 0, TimeDefault, reason, 0, "")
NotACommand              == Cmd("NotACommand", 0, TimeDefault, <<>>, 0, "")
Dev(action)              == Cmd("Dev", 0, TimeDefault, action, 0, "")
CoinFlip                 == Cmd("CoinFlip", 0, TimeDefault, <<>>, 0, "")
RandomInt(bound)         == Cmd("RandomInt", 0, TimeDefault, <<>>, bound, "")
\* parse_from_message did not return: an index past the end of args panicked
Panicked                 == Cmd("Panic", 0, TimeDefault, <<>>, 0, "")
\* value of cmd before parse_from_message has run
NoCmd                    == Cmd("None", 0, TimeDefault, <<>>, 0, "")

\* the reasons carried by NotValid
NotAModerator == <<"U","s","e","r"," ","i","s"," ","n","o","t"," ","a"," ","r","e","g","i","s","t","e","r","e","d"," ","m","o","d","e","r","a","t","o","r">>
NotTheDev == <<"U","s","e","r"," ","i","s"," ","n","o","t"," ","t","h","e"," ","d","e","v","!">>
NotAUserId == <<"G","i","v","e","n"," ","u","s","e","r"," ","w","a","s"," ","n","o","t"," ","a"," ","v","a","l","i","d"," ","U","s","e","r","I","D">>
TimeInvalid == <<"G","i","v","e","n"," ","t","i","m","e"," ","w","a","s"," ","i","n","v","a","l","i","d","!">>
CouldntParse == <<"I"," ","c","o","u","l","d","n","'","t"," ","p","a","r","s","e"," ","t","h","e"," ","c","o","m","m","a","n","d","!">>
CouldntParseInt == <<"C","o","u","l","d","n","'","t"," ","p","a","r","s","e"," ","a","n"," ","i","n","t","e","g","e","r"," ","f","r","o","m"," ","t","h","e"," ","g","i","v","e","n"," ","a","r","g","u","m","e","n","t","s","!">>

(***************************************************************************)
(* The gates                                                               *)
(***************************************************************************)
\* outcomes of the lookups behind user_is_mod: both succeed, the user
\* lookup fails, or the role lookup fails; "none" when no query is made
ModQueries == {"ok", "user_err", "role_err"}

\* mutant: a failed role lookup counts as a moderator (fails open)
user_is_mod_failopen(user_id, q) ==
    CASE q = "ok"       -> (user_id \in Staff) \/ (user_id = CAMILA)
      [] q = "role_err" -> TRUE
      [] OTHER          -> FALSE

\* BotShard::user_is_mod (backend.rs): errors fall back to false
user_is_mod(user_id, q) ==
    CASE q = "ok"       -> (user_id \in Staff) \/ (user_id = CAMILA)
      [] q = "role_err" -> FALSE
      [] OTHER          -> FALSE

\* BotShard::user_is_mod (shard.rs): errors are returned to the caller
shard_user_is_mod(user_id, q, perms) ==
    IF q = "ok" THEN [ok |-> TRUE, val |-> user_id \in perms]
    ELSE [ok |-> FALSE, val |-> FALSE]

\* mutant: the gate lets every command through
requires_mod_open(self, is_mod) == self

\* mutant: the gate rejects every command of a non-moderator
requires_mod_strict(self, is_mod) ==
    IF is_mod THEN self ELSE NotValid(NotAModerator)

requires_mod(self, is_mod) ==
    IF is_mod THEN self
    ELSE IF self.kind \in {"Ban", "Mute", "Notice"} THEN NotValid(NotAModerator)
    ELSE self

\* mutant: the developer gate lets every actor through
requires_dev_open(self, author_id) == self

requires_dev(self, author_id) ==
    IF author_id = CAMILA THEN self ELSE NotValid(NotTheDev)

(***************************************************************************)
(* Command::parse_from_message                                             *)
(***************************************************************************)
\* whether parsing this text reaches requires_mod, i.e. queries user_is_mod
QueriesMod(txt) ==
    /\ starts_with(txt, PREFIX)
    /\ LET args == split(txt, {" ", "\n", "\t"})
           kind == CommandType_from_str(strip_prefix_or(args[1], PREFIX))
       IN  \/ kind = "Notice"
           \/ kind = "Ban" /\ Len(args) >= 2 /\ UserId_from_str(args[2]).ok
           \/ /\ kind = "Mute" /\ Len(args) >= 3
              /\ UserId_from_str(args[2]).ok /\ Time_from_str(args[3]).ok

\* the body of parse_from_message after the prefix test
parse_args(content, author, q) ==
    LET args == split(content, {" ", "\n", "\t"})
        kind == CommandType_from_str(strip_prefix_or(args[1], PREFIX))
        is_mod == user_is_mod(author, q)
    IN  IF args = <<>> THEN NotACommand
        ELSE
        CASE kind = "Ban" ->
               IF Len(args) < 2 THEN Panicked
               ELSE LET user_id == UserId_from_str(args[2])
                    IN  IF ~user_id.ok THEN NotValid(NotAUserId)
                        ELSE requires_mod(Ban(user_id.val, vec_string_to_string(args, 1)), is_mod)
          [] kind = "Mute" ->
               IF Len(args) < 2 THEN Panicked
               ELSE LET user_id == UserId_from_str(args[2])
                    IN  IF ~user_id.ok THEN NotValid(NotAUserId)
                        ELSE IF Len(args) < 3 THEN Panicked
                        ELSE LET time == Time_from_str(args[3])
                             IN  IF ~time.ok THEN NotValid(TimeInvalid)
                                 ELSE requires_mod(
                                        Mute(user_id.val, time.time, vec_string_to_string(args, 3)),
                                        is_mod)
          [] kind = "Notice" ->
               requires_mod(Notice(vec_string_to_string(args, 1)), is_mod)
          [] kind = "PrivateModMessage" ->
               PrivateModMessage(vec_string_to_string(args, 1), author)
          [] kind = "Xkcd" -> Xkcd(xkcd_from_string(vec_string_to_string(args, 1)))
          [] kind = "DontAskToAsk" -> DontAskToAsk
          [] kind = "NotValid" -> NotValid(CouldntParse)
          [] kind = "Help" ->
               IF Len(args) = 1 THEN Help("None")
               ELSE Help(CommandType_from_str(vec_string_to_string(args, 1)))
          [] kind = "Suggestion" -> Suggestion(vec_string_to_string(args, 1))
          [] kind = "Dev" -> requires_dev(Dev(vec_string_to_string(args, 1)), author)
          [] kind = "CoinFlip" -> CoinFlip
          [] kind = "RandomInt" ->
               LET int == parse_u32(vec_string_to_string(args, 1))
               IN  IF int.ok THEN RandomInt(int.val) ELSE NotValid(CouldntParseInt)

\* mutant: the prefix test is missing
parse_from_message_noprefix(content, author, q) == parse_args(content, author, q)

parse_from_message(content, author, q) ==
    IF ~starts_with(content, PREFIX) THEN NotACommand
    ELSE parse_args(content, author, q)

(***************************************************************************)
(* TryFrom<Time> for Timestamp.  The products are computed in u8: an       *)
(* overflowing product panics in a build with overflow checks ("debug")    *)
(* and wraps in a build without ("release").  headroom is the number of    *)
(* seconds between Timestamp::now() and the last representable timestamp.  *)
(***************************************************************************)
U8Mod == 256

\* a * b in u8: -1 for the panic of a checked build, the wrapped product otherwise
MulU8(a, b, build) ==
    IF a < 0 THEN -1
    ELSE IF a * b > U8Max THEN (IF build = "debug" THEN -1 ELSE (a * b) % U8Mod)
    ELSE a * b

Timestamp_try_from(value, build, headroom) ==
    LET secs  == value.seconds
        mins  == MulU8(value.minutes, 60, build)
        hours == MulU8(MulU8(value.hours, 60, build), 60, build)
        days  == MulU8(MulU8(MulU8(value.days, 60, build), 60, build), 24, build)
        total == secs + mins + hours + days
    IN  IF mins < 0 \/ hours < 0 \/ days < 0 THEN [res |-> "panic", secs |-> 0]
        ELSE IF total > headroom THEN [res |-> "err", secs |-> 0]
        ELSE [res |-> "ok", secs |-> total]

(***************************************************************************)
(* The platform gateway as BotShard uses it.  A gateway state st carries   *)
(* the guild, the bans, the mutes, the effects performed so far, the       *)
(* number n of requests issued and res: "run" while the command is still   *)
(* executing, "err" once a request failed and `?` returned the error.      *)
(* Request number f fails spuriously (f = 0: none does).                   *)
(***************************************************************************)
Effect(op, user, tmpl, arg, num) ==
    [op |-> op, user |-> user, tmpl |-> tmpl, arg |-> arg, num |-> num]

\* one request to the platform: it is made only while the command runs; it
\* fails when it is request number f or when `possible` is false
Request(st, f, possible, effects, guild2, banned2, muted2) ==
    IF st.res # "run" THEN st
    ELSE IF st.n + 1 = f \/ ~possible THEN [st EXCEPT !.n = @ + 1, !.res = "err"]
    ELSE [st EXCEPT !.n = @ + 1, !.log = @ \o effects,
                    !.guild = guild2, !.banned = banned2, !.muted = muted2]

\* a request that only reads
Lookup(st, f, possible) ==
    Request(st, f, possible, <<>>, st.guild, st.banned, st.muted)

\* BotShard::member_request: get_member fails for a user who is not a member
member_request(st, f, user_id) == Lookup(st, f, user_id \in st.guild)

\* Member::ban_with_reason: the member leaves the guild and is banned
ban_with_reason(st, f, user_id, reason) ==
    Request(st, f, TRUE, <<Effect("ban", user_id, "", reason, 0)>>,
            st.guild \ {user_id}, st.banned \cup {user_id}, st.muted)

\* Member::disable_communication_until_datetime
disable_communication_until_datetime(st, f, user_id, secs) ==
    Request(st, f, TRUE, <<Effect("mute", user_id, "", <<>>, secs)>>,
            st.guild, st.banned, st.muted \cup {user_id})

\* BotShard::send_message / send_message_to: get_channel, then say
send_message(st, f, tmpl, arg) ==
    LET channel == Lookup(st, f, TRUE)
    IN  Request(channel, f, TRUE, <<Effect("say", 0, tmpl, arg, 0)>>,
                channel.guild, channel.banned, channel.muted)

\* `let _ = ...`: the error of the request is dropped and execution goes on
Ignore(st) == IF st.res = "err" THEN [st EXCEPT !.res = "run"] ELSE st

\* mutant: a failure to deliver the direct message is dropped
message_user_swallow(st, f, user_id, tmpl, arg) ==
    IF st.res # "run" THEN st
    ELSE LET member  == member_request(st, f, user_id)
             channel == Lookup(member, f, TRUE)
         IN  Ignore(Request(channel, f, TRUE, <<Effect("dm", user_id, tmpl, arg, 0)>>,
                            channel.guild, channel.banned, channel.muted))

\* BotShard::message_user: member_request, create_dm_channel, say
message_user(st, f, user_id, tmpl, arg) ==
    LET member  == member_request(st, f, user_id)
        channel == Lookup(member, f, TRUE)
    IN  Request(channel, f, TRUE, <<Effect("dm", user_id, tmpl, arg, 0)>>,
                channel.guild, channel.banned, channel.muted)

\* BotShard::mute_user
mute_user(st, f, user_id, time, reason, build, headroom) ==
    LET stamp == Timestamp_try_from(time, build, headroom)
    IN  IF st.res # "run" THEN st
        ELSE IF stamp.res = "panic" THEN [st EXCEPT !.res = "panic"]
        ELSE IF stamp.res = "err" THEN [st EXCEPT !.res = "err"]
        ELSE LET member   == member_request(st, f, user_id)
                 disabled == disable_communication_until_datetime(member, f, user_id, stamp.secs)
             IN  send_message(disabled, f, "MuteReason", reason)

\* std::process::abort()
abort(st) == [st EXCEPT !.res = "abort", !.log = Append(@, Effect("abort", 0, "", <<>>, 0))]

(***************************************************************************)
(* Command::execute_command                                                *)
(***************************************************************************)
Act_stop == <<"s","t","o","p">>
\* mutant: the second arm matches another action text
Act_halt_other == <<"1">>

Act_halt == <<"h","a","l","t">>

execute_command(self, st, f, flip, int, build, headroom) ==
    CASE self.kind = "Ban" ->
           LET user   == member_request(st, f, self.user)
               ban    == ban_with_reason(user, f, self.user, self.text)
               dm     == message_user(ban, f, self.user, "BanDM", self.text)
           IN  send_message(dm, f, "BanConfirm", self.text)
      [] self.kind = "Mute" ->
           LET mute == mute_user(st, f, self.user, self.time, self.text, build, headroom)
               dm   == message_user(mute, f, self.user, "MuteDM", self.text)
           IN  send_message(dm, f, "MuteConfirm", self.text)
      [] self.kind = "Notice" -> send_message(st, f, "Notice", self.text)
      [] self.kind = "PrivateModMessage" -> send_message(st, f, "Unimplemented", <<>>)
      [] self.kind = "Xkcd" -> send_message(st, f, "XkcdUrl", Decimal(self.num))
      [] self.kind = "DontAskToAsk" -> send_message(st, f, "DontAskToAskUrl", <<>>)
      [] self.kind = "Help" ->
           IF self.sub # "None" THEN send_message(st, f, "HelpMessage", <<>>)
           ELSE send_message(st, f, "AvailibleCommands", <<>>)
      [] self.kind = "Suggestion" ->
           LET dm == message_user(st, f, CAMILA, "SuggestionDM", self.text)
           IN  send_message(dm, f, "SuggestionSent", <<>>)
      [] self.kind = "NotValid" -> send_message(st, f, "NotValid", self.text)
      [] self.kind = "NotACommand" -> st
      [] self.kind = "Dev" ->
           IF self.text \in {Act_stop, Act_halt}
           THEN abort(Ignore(send_message(st, f, "ShuttingDown", <<>>)))
           ELSE st
      [] self.kind = "CoinFlip" -> send_message(st, f, "CoinFlip", flip)
      [] self.kind = "RandomInt" -> send_message(st, f, "RandomInt", Decimal(int))

\* the text of the rejection sent for NotValid(reason): the template with
\* [REASON] replaced by the reason
Oops == <<"O","o","p","s","!"," ","T","h","a","t"," ","c","o","m","m","a","n","d"," ","w","a","s"," ","i","n","v","a","l","i","d"," ","f","o","r"," ","t","h","e"," ","f","o","l","l","o","w","i","n","g"," ","r","e","a","s","o","n",":"," ","\n",">"," ">>

NotValidText(reason) == Oops \o reason

(***************************************************************************)
(* The nickname override: BotShard::is_kekeable and BotShard::keke_author. *)
(* users_keke is the set of ids whose row of the users table has keke set. *)
(***************************************************************************)
W_im == <<"i","'","m"," ">>
W_iam == <<"i"," ","a","m"," ">>

NickLimit == 32

\* is_kekeable: kekeable starts false and is assigned only in the row
\* closure of query_map; query_map is lazy and its iterator is dropped
\* unstepped ("let _ ="), so no row of users_keke is ever read.  prepare()?
\* returns the engine's verdict on the statement.
is_kekeable(users_keke, author, prepared) ==
    LET kekeable == FALSE
    IN  IF ~prepared THEN "err" ELSE IF kekeable THEN "true" ELSE "false"

\* BotShard::guild_id (shard.rs): a message of a private channel carries no
\* guild id
guild_id(org) == IF org = "PrivateChannel" THEN "err" ELSE "ok"

\* BotShard::member_request (shard.rs): self.guild_id()? comes before the request
shard_member_request(st, f, org, user_id) ==
    IF st.res # "run" THEN st
    ELSE IF guild_id(org) = "err" THEN [st EXCEPT !.res = "err"]
    ELSE member_request(st, f, user_id)

\* BotShard::message_user (shard.rs): member_request, create_dm_channel, say
shard_message_user(st, f, org, user_id, tmpl, arg) ==
    LET member  == shard_member_request(st, f, org, user_id)
        channel == Lookup(member, f, TRUE)
    IN  Request(channel, f, TRUE, <<Effect("dm", user_id, tmpl, arg, 0)>>,
                channel.guild, channel.banned, channel.muted)

\* Member::edit with a nickname
edit_nickname(st, f, user_id, nickname) ==
    Request(st, f, TRUE, <<Effect("nick", user_id, "", nickname, 0)>>,
            st.guild, st.banned, st.muted)

\* keke_author
keke_author(st, f, org, content, author, users_keke, prepared) ==
    LET stripped == strip_prefix_or(content, W_im)
        potential_keke == IF starts_with(stripped, W_iam)
                          THEN strip_prefix_or(stripped, W_iam)
                          ELSE content
    IN  IF is_kekeable(users_keke, author, prepared) = "true"
        THEN IF Len(content) <= NickLimit
             THEN LET member == shard_member_request(st, f, org, author)
                      edited == edit_nickname(member, f, author, potential_keke)
                  IN  send_message(edited, f, "KekeIs", potential_keke)
             ELSE send_message(st, f, "KekeIsNot", potential_keke)
        ELSE [st EXCEPT !.res = "err"]

\* the users opted in to the nickname override
OptedIn == {PlainUser}

Bob == <<"b","o","b">>
Xs(n) == [i \in 1..n |-> "x"]

\* messages for the nickname override: the two prefixes, a prefix in
\* capitals, no prefix, and remainders around the limit
KekeTexts ==
    {W_iam \o Bob, W_im \o Bob, <<"I"," ","A","m"," ">> \o Bob, Bob,
     W_iam \o Xs(NickLimit - 2), W_iam \o Xs(NickLimit + 1)}

(***************************************************************************)
(* Inputs of the message handler: a leading word followed by at most       *)
(* MaxArgs argument words, separated by single spaces (an empty argument   *)
(* word gives two consecutive spaces).                                     *)
(***************************************************************************)
W_ban == <<"-","b","a","n">>
W_mute == <<"-","m","u","t","e">>
W_notice == <<"-","n","o","t","i","c","e">>
W_dev == <<"-","d","e","v">>
W_flip == <<"-","f","l","i","p">>
W_prefix == <<"-">>
W_hello == <<"h","e","l","l","o">>
A_member == <<"1">>
A_time == <<"5","s">>
A_stop == <<"s","t","o","p">>
A_empty == <<>>

LeadWords == {W_ban, W_mute, W_notice, W_dev, W_flip, W_prefix, W_hello}
ArgWords == {A_member, A_time, A_stop, A_empty}

RECURSIVE ArgTails(_)
\* the texts that follow the leading word: k argument words, each after a space
ArgTails(k) ==
    IF k = 0 THEN {<<>>}
    ELSE {<<" ">> \o a \o t : a \in ArgWords, t \in ArgTails(k - 1)}

W_randint == <<"-","r","a","n","d","i","n","t">>
W_rand == <<"-","r","a","n","d">>

\* requests for a random integer: every bound up to MaxBound, a signed one,
\* and arguments that are not a number
RandTexts ==
    {W_randint \o <<" ">> \o Decimal(n) : n \in 0..MaxBound}
    \cup {W_rand \o <<" ", "2">>, W_randint \o <<" ", "+", "2">>, W_randint,
          W_randint \o <<" ">> \o A_stop, W_randint \o <<" ", "1", " ", "2">>}

\* mutes of user 1 for five minutes and for two and a half hours
MuteTexts ==
    {W_mute \o <<" ">> \o A_member \o <<" ", "5", "m">>,
     W_mute \o <<" ">> \o A_member \o <<" ", "2", "h", "3", "0", "m">>,
     W_mute \o <<" ">> \o A_member \o <<" ">> \o A_time \o <<" ">> \o W_flip}

\* the second action text of Dev
DevTexts == {W_dev \o <<" ">> \o Act_halt}

\* suggestions, with and without a text
SuggestTexts ==
    {PREFIX \o Kw_suggest \o <<" ">> \o A_stop, PREFIX \o Kw_suggest}

\* the messages that are also sent in a private channel: a command, an
\* unknown command, and a text that is no command
PrivateTexts ==
    {W_flip, W_prefix \o A_stop, W_hello, W_notice \o <<" ">> \o A_stop,
     W_dev \o <<" ">> \o A_stop}

Origins(t) ==
    IF t \in PrivateTexts THEN {"PublicChannel", "PrivateChannel"} ELSE {"PublicChannel"}

Texts ==
    {w \o t : w \in LeadWords, t \in UNION {ArgTails(k) : k \in 0..MaxArgs}}
    \cup RandTexts \cup KekeTexts \cup MuteTexts \cup DevTexts \cup SuggestTexts

Heads == <<"h","e","a","d","s">>
Tails == <<"t","a","i","l","s">>

\* the gateway requests of one command that may be the one to fail
MaxCalls == 9
\* seconds left before the last representable timestamp: none, or plenty
Headrooms == {0, 100000}
Builds == {"debug", "release"}

(***************************************************************************)
(* The message handler (Bot::message -> BotShard::execute_command)         *)
(*                                                                         *)
(* Bot::message first runs the nickname override, then the relay of        *)
(* private messages, whose result it discards, and then parses and         *)
(* executes the command: the steps are Keke, Relay, Parse and Execute.     *)
(***************************************************************************)
NotCalled == TimeErr("NotCalled", "", <<>>)

\* CaseFile and the Err of CaseFile::from_str
CaseFile(name, resolved, items) ==
    [ok |-> TRUE, name |-> name, resolved |-> resolved, items |-> items, err |-> ""]
CaseFileErr(err) ==
    [ok |-> FALSE, name |-> <<>>, resolved |-> FALSE, items |-> <<>>, err |-> err]
NotParsed == CaseFileErr("NotParsed")

\* ids that casefile actions are asked for
CaseIds == 0..1

\* the tasks that may run blacklist_user at the same time
Tasks == {"a", "b"}
TaskIdle == [pc |-> "idle", user |-> 0, file |-> <<>>]

\* the platform and the files when the bot starts, before any message is handled
WorldInit ==
    /\ guild = InitialGuild
    /\ banned = {}
    /\ muted = {}
    /\ log = <<>>
    /\ fault = 0
    /\ result = "none"
    /\ ctype = "NotCalled"
    /\ comic = -1
    /\ blacklist = <<>>
    /\ task = [t \in Tasks |-> TaskIdle]
    /\ cases = {}
    /\ cf = [op |-> "none", id |-> 0, stored |-> FALSE, res |-> "none"]
    /\ data = [id \in CaseIds |-> <<>>]
    /\ casefile = NotParsed

Init ==
    /\ WorldInit
    /\ pc = "idle"
    /\ text = <<>>
    /\ actor = CAMILA
    /\ origin = "PublicChannel"
    /\ modq = "none"
    /\ cmd = NoCmd
    /\ gated = NoCmd
    /\ s = <<>>
    /\ parsed = NotCalled

\* a message event arrives
Receive ==
    /\ pc = "idle"
    /\ \E t \in Texts, a \in Actors :
       \E o \in Origins(t) :
         /\ text' = t
         /\ actor' = a
         /\ origin' = o
    /\ pc' = "keke"
    /\ modq' = "none"
    /\ cmd' = NoCmd
    /\ result' = "none"
    /\ log' = <<>>
    /\ fault' = 0
    /\ UNCHANGED <<worldVars, gated, timeVars, fnVars, storeVars>>

\* if shard.is_kekeable().await.unwrap_or(false) { let _ = shard.keke_author().await; }
Keke ==
    /\ pc = "keke"
    /\ \E f \in 0..MaxCalls, prepared \in BOOLEAN :
         LET st0 == [guild |-> guild, banned |-> banned, muted |-> muted,
                     log |-> <<>>, n |-> 0, res |-> "run"]
             st  == IF is_kekeable(OptedIn, actor, prepared) = "true"
                    THEN keke_author(st0, f, origin, text, actor, OptedIn, prepared)
                    ELSE st0
         IN  log' = st.log
    /\ pc' = "relay"
    /\ UNCHANGED <<text, actor, origin, modq, cmd, result, worldVars, fault, gated, timeVars,
                   fnVars, storeVars>>

\* BotShard::message_origin
message_origin(org) == IF org = "PrivateChannel" THEN "PrivateChannel" ELSE "PublicChannel"

\* the relay of a private message to CAMILA; its error is printed and dropped
Relay ==
    /\ pc = "relay"
    /\ \E f \in 0..MaxCalls :
         LET st0 == [guild |-> guild, banned |-> banned, muted |-> muted,
                     log |-> <<>>, n |-> 0, res |-> "run"]
             st  == IF message_origin(origin) = "PrivateChannel"
                    THEN Ignore(shard_message_user(st0, f, origin, CAMILA, "RelayDM", text))
                    ELSE st0
         IN  log' = log \o st.log
    /\ pc' = "parse"
    /\ UNCHANGED <<text, actor, origin, modq, cmd, result, worldVars, fault, gated, timeVars,
                   fnVars, storeVars>>

\* shard.command(): Command::parse_from_message
Parse ==
    /\ pc = "parse"
    /\ \E q \in ModQueries :
         \* the role lookup succeeds only for a member of the guild
         /\ q = "ok" => actor \in guild
         /\ modq' = IF QueriesMod(text) THEN q ELSE "none"
         /\ cmd' = parse_from_message(text, actor, q)
    /\ pc' = IF cmd'.kind = "Panic" THEN "done" ELSE "exec"
    /\ result' = IF cmd'.kind = "Panic" THEN "panic" ELSE "none"
    /\ UNCHANGED <<text, actor, origin, worldVars, log, fault, gated, timeVars, fnVars, storeVars>>

\* the random draws and the environment that the command in hand reads
FlipChoices(c) == IF c.kind = "CoinFlip" THEN {Heads, Tails} ELSE {Heads}
\* mutant: the draw may reach the bound
IntChoices_inclusive(c) == IF c.kind = "RandomInt" THEN 0..c.num ELSE {0}

\* (random::<f64>() * bound as f64) as u32: the draw is below 1, the product
\* below the bound, and the cast truncates
IntChoices(c) == IF c.kind = "RandomInt" /\ c.num > 0 THEN 0..(c.num - 1) ELSE {0}
BuildChoices(c) == IF c.kind = "Mute" THEN Builds ELSE {"release"}
HeadroomChoices(c) == IF c.kind = "Mute" THEN Headrooms ELSE {100000}

\* Command::execute_command, and Bot::message reporting its error
Execute ==
    /\ pc = "exec"
    /\ \E f \in 0..MaxCalls, flip \in FlipChoices(cmd), int \in IntChoices(cmd),
          build \in BuildChoices(cmd), headroom \in HeadroomChoices(cmd) :
         LET st0 == [guild |-> guild, banned |-> banned, muted |-> muted,
                     log |-> <<>>, n |-> 0, res |-> "run"]
             st  == execute_command(cmd, st0, f, flip, int, build, headroom)
         IN  /\ guild' = st.guild
             /\ banned' = st.banned
             /\ muted' = st.muted
             /\ log' = log \o st.log
             /\ fault' = IF st.res = "err" /\ st.n = f THEN f ELSE 0
             /\ result' = IF st.res = "run" THEN "ok" ELSE st.res
             /\ pc' = IF st.res = "abort" THEN "aborted" ELSE "done"
    /\ UNCHANGED <<text, actor, origin, modq, cmd, gated, timeVars, fnVars, storeVars>>

\* Bot::message returns (or its task ended by the panic): the handler is
\* ready for the next message event
Return ==
    /\ pc = "done"
    /\ pc' = "idle"
    /\ text' = <<>>
    /\ actor' = CAMILA
    /\ origin' = "PublicChannel"
    /\ modq' = "none"
    /\ cmd' = NoCmd
    /\ result' = "none"
    /\ log' = <<>>
    /\ fault' = 0
    /\ UNCHANGED <<worldVars, gated, timeVars, fnVars, storeVars>>

Next == Receive \/ Keke \/ Relay \/ Parse \/ Execute \/ Return

Spec == Init /\ [][Next]_vars

(***************************************************************************)
(* The bot's own messages as message events.  Bot::message does not look   *)
(* at the author of the message, so a message that the bot sent is handled *)
(* like any other when the gateway delivers it.                            *)
(***************************************************************************)
\* the user id of the bot
BOT == 4

\* how the text of each message opens (the literal or format string at the
\* place that sends it); the code fence that opens the help texts is
\* written with tildes
Opening(tmpl) ==
    CASE tmpl \in {"BanDM", "MuteDM"} -> <<"Y","o","u">>
      [] tmpl \in {"BanConfirm", "MuteConfirm", "SuggestionSent"} ->
           <<"S","u","c","c","e","s","s","f","u","l","l","y">>
      [] tmpl \in {"Notice", "CoinFlip"} -> <<"T","h","e">>
      [] tmpl = "Unimplemented" -> <<"O","n","e","-","T","i","m","e">>
      [] tmpl \in {"XkcdUrl", "DontAskToAskUrl"} -> <<"h","t","t","p","s",":">>
      [] tmpl = "HelpMessage" -> <<"~","~","~">>
      [] tmpl = "AvailibleCommands" -> <<"A","v","a","i","l","i","b","l","e">>
      [] tmpl = "SuggestionDM" -> <<"H","e","a","d","s">>
      [] tmpl = "NotValid" -> <<"O","o","p","s","!">>
      [] tmpl = "ShuttingDown" -> <<"S","h","u","t","t","i","n","g">>
      [] tmpl = "RandomInt" -> <<"B","e","t","w","e","e","n">>
      [] tmpl = "RelayDM" -> <<"I","n","c","o","m","i","n","g">>
      [] OTHER -> <<>>

\* the content of a message the bot sent: mute_user sends the reason as it
\* is; every other message is a fixed text around its argument, given here
\* by its opening word and the argument
Rendered(e) ==
    IF e.tmpl = "MuteReason" THEN e.arg
    ELSE Opening(e.tmpl) \o <<" ">> \o e.arg

\* the gateway delivers one of the messages sent while handling the last
\* message: a reply arrives in the channel of that message, a DM in a
\* private channel
Echo ==
    /\ pc = "done"
    /\ \E i \in DOMAIN log :
         /\ log[i].op \in {"say", "dm"}
         /\ text' = Rendered(log[i])
         /\ origin' = IF log[i].op = "dm" THEN "PrivateChannel" ELSE origin
    /\ actor' = BOT
    /\ pc' = "keke"
    /\ modq' = "none"
    /\ cmd' = NoCmd
    /\ result' = "none"
    /\ log' = <<>>
    /\ fault' = 0
    /\ UNCHANGED <<worldVars, gated, timeVars, fnVars, storeVars>>

NextEcho == Next \/ Echo

SpecEcho == Init /\ [][NextEcho]_vars

(***************************************************************************)
(* The gates applied on their own to commands of every variant             *)
(***************************************************************************)
FiveSeconds == [TimeDefault EXCEPT !.seconds = 5]

GateCmds ==
    {Ban(PlainUser, A_stop), Ban(Stranger, <<>>), Mute(PlainUser, FiveSeconds, A_stop),
     Notice(A_stop), Notice(<<>>), PrivateModMessage(A_stop, PlainUser), Xkcd(703),
     DontAskToAsk, Help("None"), Help("Ban"), Suggestion(A_stop),
     NotValid(CouldntParse), NotValid(NotAModerator), NotACommand,
     Dev(Act_stop), Dev(A_member), CoinFlip, RandomInt(10)}

InitGate ==
    /\ WorldInit
    /\ pc = "gate"
    /\ text = <<>>
    /\ actor \in Actors
    /\ origin = "PublicChannel"
    /\ modq \in ModQueries
    /\ cmd \in GateCmds
    /\ gated = NoCmd
    /\ s = <<>>
    /\ parsed = NotCalled

\* self.requires_mod(shard)
GateMod ==
    /\ pc = "gate"
    /\ gated' = requires_mod(cmd, user_is_mod(actor, modq))
    /\ pc' = "gated_mod"
    /\ UNCHANGED <<text, actor, origin, modq, cmd, result, worldVars, log, fault, timeVars, fnVars, storeVars>>

\* self.requires_dev(shard)
GateDev ==
    /\ pc = "gate"
    /\ gated' = requires_dev(cmd, actor)
    /\ pc' = "gated_dev"
    /\ UNCHANGED <<text, actor, origin, modq, cmd, result, worldVars, log, fault, timeVars, fnVars, storeVars>>

NextGate == GateMod \/ GateDev

SpecGate == InitGate /\ [][NextGate]_vars

(***************************************************************************)
(* Time::from_str applied to duration strings                              *)
(***************************************************************************)
UnitChars == <<"s", "m", "h", "d">>

\* magnitudes of the well-formed strings, besides 0..MaxNum tried alone
PairNums == {2, 30, 255}

RECURSIVE PairStrings(_)
\* the strings of <number><unit> pairs over the units of the set us, each
\* unit used at most once, in every order
PairStrings(us) ==
    {<<>>} \cup UNION {{Decimal(n) \o <<u>> \o rest : n \in PairNums,
                                                     rest \in PairStrings(us \ {u})}
                       : u \in us}

\* pieces of the other strings: a magnitude (possibly missing, too large or
\* not a number) followed by a unit (possibly missing or unknown)
PieceNums == {<<>>, <<"7">>, <<"2","5","6">>, <<"1","-","2">>, <<"+","7">>}
PieceUnits == {<<"s">>, <<"h">>, <<"x">>, <<>>}
Pieces == {n \o u : n \in PieceNums, u \in PieceUnits}

RECURSIVE PieceStrings(_)
PieceStrings(k) ==
    IF k = 0 THEN {<<>>}
    ELSE {p \o rest : p \in Pieces, rest \in PieceStrings(k - 1)}

TimeInputs ==
    PairStrings(Range(UnitChars))
    \cup {Decimal(n) \o <<u>> : n \in 0..MaxNum, u \in Range(UnitChars)}
    \cup UNION {PieceStrings(k) : k \in 0..MaxPairs}

InitTime ==
    /\ WorldInit
    /\ pc = "time"
    /\ text = <<>>
    /\ actor = CAMILA
    /\ origin = "PublicChannel"
    /\ modq = "none"
    /\ cmd = NoCmd
    /\ gated = NoCmd
    /\ s \in TimeInputs
    /\ parsed = NotCalled

\* Time::from_str(s)
TimeParse ==
    /\ pc = "time"
    /\ parsed = NotCalled
    /\ parsed' = Time_from_str(s)
    /\ UNCHANGED <<pc, text, actor, origin, modq, cmd, result, worldVars, log, fault, gated, s, fnVars, storeVars>>

NextTime == TimeParse

SpecTime == InitTime /\ [][NextTime]_vars

(***************************************************************************)
(* CommandType::from_str and xkcd_from_string applied to texts             *)
(***************************************************************************)
\* char upper-casing, to write the inputs in other letter cases
UpperChar(c) ==
    IF c \in Range(Lower) THEN Upper[CHOOSE i \in 1..26 : Lower[i] = c] ELSE c

to_uppercase(str) == [i \in 1..Len(str) |-> UpperChar(str[i])]

Capitalized(str) ==
    IF str = <<>> THEN str ELSE <<UpperChar(Head(str))>> \o Tail(str)

\* tokens that the user-facing texts of the bot name but the table of
\* CommandType::from_str does not list
Tok_optin == <<"o","p","t","i","n">>
Tok_optout == <<"o","p","t","o","u","t">>
Tok_keke == <<"k","e","k","e">>
Tok_foo == <<"f","o","o","_","b","a","r">>

FnWords ==
    {Kw_ban, Kw_mute, Kw_notice, Kw_private, Kw_pvm, Kw_xkcd, Kw_dontasktoask, Kw_da2a,
     Kw_help, Kw_suggest, Kw_dev, Kw_coinflip, Kw_flip, Kw_randint, Kw_rand,
     Tok_optin, Tok_optout, Tok_keke, Tok_foo, <<>>,
     Xk_tautology, Xk_tautological, Xk_honor_society, Xk_python, Xk_import_antigravity,
     Xk_antigravity, Xk_haskell, Xk_side_effects, Xk_trolley_problem, Xk_linux, Xk_OS,
     <<"0">>, <<"7","0","3">>, <<"+","5">>}

\* every word in three letter cases, with and without the prefix, alone or
\* followed by further text
FnInputs ==
    {pre \o w \o tail :
        pre \in {<<>>, PREFIX},
        w \in UNION {{to_lowercase(x), to_uppercase(x), Capitalized(x)} : x \in FnWords},
        tail \in {<<>>, <<" ">> \o Tok_foo, <<"\n", "1">>}}

InitFn ==
    /\ WorldInit
    /\ pc = "fn"
    /\ text \in FnInputs
    /\ actor = CAMILA
    /\ origin = "PublicChannel"
    /\ modq = "none"
    /\ cmd = NoCmd
    /\ gated = NoCmd
    /\ s = <<>>
    /\ parsed = NotCalled

\* text.parse::<CommandType>()
Classify ==
    /\ pc = "fn"
    /\ ctype = "NotCalled"
    /\ ctype' = CommandType_from_str(text)
    /\ UNCHANGED <<pc, text, actor, origin, modq, cmd, result, worldVars, log, fault, gated,
                   timeVars, comic, storeVars>>

\* xkcd_from_string(text)
XkcdLookup ==
    /\ pc = "fn"
    /\ comic = -1
    /\ comic' = xkcd_from_string(text)
    /\ UNCHANGED <<pc, text, actor, origin, modq, cmd, result, worldVars, log, fault, gated,
                   timeVars, ctype, storeVars>>

NextFn == Classify \/ XkcdLookup

SpecFn == InitFn /\ [][NextFn]_vars

(***************************************************************************)
(* The blacklist file and BotShard::blacklist_user.  Message handlers are  *)
(* tasks of the multi-threaded runtime, so two calls run in parallel: the  *)
(* read of the file and the write of the file are separate steps.          *)
(***************************************************************************)
\* str::lines: the pieces between line feeds, without a last empty piece
lines(str) ==
    LET pieces == split(str, {"\n"})
    IN  IF pieces[Len(pieces)] = <<>> THEN SubSeq(pieces, 1, Len(pieces) - 1) ELSE pieces

\* [String]::join("\n")
RECURSIVE JoinLines(_)
JoinLines(v) ==
    IF v = <<>> THEN <<>>
    ELSE IF Len(v) = 1 THEN v[1]
    ELSE v[1] \o <<"\n">> \o JoinLines(Tail(v))

\* the users given to blacklist_user
BlUsers == {PlainUser, ModUser}

InitStore ==
    /\ WorldInit
    /\ pc = "store"
    /\ text = <<>>
    /\ actor = CAMILA
    /\ origin = "PublicChannel"
    /\ modq = "none"
    /\ cmd = NoCmd
    /\ gated = NoCmd
    /\ s = <<>>
    /\ parsed = NotCalled

\* a task calls blacklist_user(user_id)
BlCall(t) ==
    /\ task[t].pc = "idle"
    /\ Len(lines(blacklist)) + Cardinality({u \in Tasks : task[u].pc # "idle"}) < MaxLines
    /\ \E user_id \in BlUsers : task' = [task EXCEPT ![t] = [@ EXCEPT !.pc = "request", !.user = user_id]]
    /\ UNCHANGED <<blacklist>>

\* self.user_request(user_id).await?: the platform answers or fails
BlUserRequest(t) ==
    /\ task[t].pc = "request"
    /\ \E answered \in BOOLEAN :
         task' = [task EXCEPT ![t] = IF answered THEN [@ EXCEPT !.pc = "read"] ELSE TaskIdle]
    /\ UNCHANGED <<blacklist>>

\* read_to_string(..)? and lines().collect(): the read fails or gives the file
BlRead(t) ==
    /\ task[t].pc = "read"
    /\ \E readable \in BOOLEAN :
         task' = [task EXCEPT ![t] = IF readable
                                       THEN [@ EXCEPT !.pc = "write", !.file = lines(blacklist)]
                                       ELSE TaskIdle]
    /\ UNCHANGED <<blacklist>>

\* blacklist.push(format!("{}", user.id.0))
blacklist_pushed(file, user_id) == Append(file, Decimal(user_id))

\* push, join("\n") and std::fs::write
BlWrite(t) ==
    /\ task[t].pc = "write"
    /\ blacklist' = JoinLines(blacklist_pushed(task[t].file, task[t].user))
    /\ task' = [task EXCEPT ![t] = TaskIdle]

BlStep ==
    /\ pc = "store"
    /\ \E t \in Tasks : BlCall(t) \/ BlUserRequest(t) \/ BlRead(t) \/ BlWrite(t)
    /\ UNCHANGED <<pc, text, actor, origin, modq, cmd, result, worldVars, log, fault, gated,
                   timeVars, fnVars, cases, cf, data, casefile>>

(***************************************************************************)
(* The cases table and CaseFileAction::execute for Create and Delete.      *)
(* The table is the one create_database declares: id is its primary key,   *)
(* so the stored ids form a set and an INSERT of a stored id fails.        *)
(***************************************************************************)
CfErr == -1

\* lowest_id_availible: the row closure of query_map runs only when the
\* iterator is stepped, and the iterator is dropped unstepped ("let _ ="),
\* so id keeps its initial 0.  prepare()? returns the engine's verdict on
\* the statement text.
lowest_id_availible(prepared) == IF prepared THEN 0 ELSE CfErr

\* CaseFileAction::Create
CfCreate ==
    /\ pc = "store"
    /\ \E prepared, sent \in BOOLEAN :
         LET id == lowest_id_availible(prepared) IN
         IF id = CfErr
           THEN /\ cf' = [op |-> "create", id |-> 0, stored |-> FALSE, res |-> "PrepareErr"]
                /\ UNCHANGED cases
           ELSE IF id \in cases
             THEN /\ cf' = [op |-> "create", id |-> id, stored |-> FALSE, res |-> "InsertErr"]
                  /\ UNCHANGED cases
             ELSE /\ cases' = cases \cup {id}
                  /\ cf' = [op |-> "create", id |-> id, stored |-> TRUE,
                            res |-> IF sent THEN "Ok" ELSE "SendErr"]
    /\ data' = IF cases' # cases THEN [data EXCEPT ![0] = <<>>] ELSE data
    /\ UNCHANGED <<pc, text, actor, origin, modq, cmd, result, worldVars, log, fault, gated,
                   timeVars, fnVars, blacklist, task, casefile>>

\* CaseFileAction::Delete
CfDelete ==
    /\ pc = "store"
    /\ \E id \in CaseIds, sent \in BOOLEAN :
         /\ cases' = cases \ {id}
         /\ data' = [data EXCEPT ![id] = <<>>]
         /\ cf' = [op |-> "delete", id |-> id, stored |-> FALSE,
                   res |-> IF sent THEN "Ok" ELSE "SendErr"]
    /\ UNCHANGED <<pc, text, actor, origin, modq, cmd, result, worldVars, log, fault, gated,
                   timeVars, fnVars, blacklist, task, casefile>>

\* CaseFile::from_id: the items are the lines of the column data of the
\* row; no row gives the error
from_id(id) ==
    IF id \in cases THEN [ok |-> TRUE, items |-> lines(data[id])]
    ELSE [ok |-> FALSE, items |-> <<>>]

\* the integer that the engine compares a text parameter as, when the column
\* has integer affinity and the text is an integer literal
SqlInteger(str) == parse_uint(str, -1)

\* CaseFile::write_to_id: the statement is "SET data = (?1) WHERE id = (?2)"
\* and execute((&id, &data)) binds the id to ?1 and the joined items to ?2:
\* the rows updated are those whose id equals the joined items, and their
\* data becomes the id.  The items are joined with spaces.
write_to_id(items, id) ==
    LET joined == vec_string_to_string(items, 0)
        key    == SqlInteger(joined)
    IN  [row \in CaseIds |->
           IF row \in cases /\ key.ok /\ key.val = row THEN Decimal(id) ELSE data[row]]

\* the items that AddItem is asked to add, the indexes that RemoveItem is
\* asked to remove (NoIndex: none given)
CfItems == {<<"a">>, <<"0">>}
NoIndex == -1
CfIndexes == {NoIndex, 0, 1}

\* CaseFileAction::AddItem
CfAddItem ==
    /\ pc = "store"
    /\ \E id \in CaseIds, item \in CfItems, sent \in BOOLEAN :
         LET got == from_id(id) IN
         IF ~got.ok
           THEN /\ cf' = [op |-> "add", id |-> id, item |-> item, res |-> "FromIdErr"]
                /\ UNCHANGED data
           ELSE /\ data' = write_to_id(Append(got.items, item), id)
                /\ cf' = [op |-> "add", id |-> id, item |-> item,
                          res |-> IF sent THEN "Ok" ELSE "SendErr"]
    /\ UNCHANGED <<pc, text, actor, origin, modq, cmd, result, worldVars, log, fault, gated,
                   timeVars, fnVars, blacklist, task, cases, casefile>>

\* Vec::remove(index): the items without the one at the 0-based index
remove(items, index) ==
    [i \in 1..(Len(items) - 1) |-> IF i <= index THEN items[i] ELSE items[i + 1]]

\* CaseFileAction::RemoveItem: Vec::remove panics for an index that is not
\* below the length, Vec::pop gives None for an empty list
CfRemoveItem ==
    /\ pc = "store"
    /\ \E id \in CaseIds, index \in CfIndexes, sent \in BOOLEAN :
         LET got == from_id(id) IN
         IF ~got.ok
           THEN /\ cf' = [op |-> "remove", id |-> id, index |-> index, res |-> "FromIdErr"]
                /\ UNCHANGED data
           ELSE IF index # NoIndex /\ index >= Len(got.items)
           THEN /\ cf' = [op |-> "remove", id |-> id, index |-> index, res |-> "panic"]
                /\ UNCHANGED data
           ELSE LET left == IF index # NoIndex THEN remove(got.items, index)
                            ELSE SubSeq(got.items, 1, Len(got.items) - 1)
                IN  /\ data' = write_to_id(left, id)
                    /\ cf' = [op |-> "remove", id |-> id, index |-> index,
                              res |-> IF sent THEN "Ok" ELSE "SendErr"]
    /\ UNCHANGED <<pc, text, actor, origin, modq, cmd, result, worldVars, log, fault, gated,
                   timeVars, fnVars, blacklist, task, cases, casefile>>

NextStore == BlStep \/ CfCreate \/ CfDelete \/ CfAddItem \/ CfRemoveItem

SpecStore == InitStore /\ [][NextStore]_vars

(***************************************************************************)
(* CaseFile::from_str applied to texts                                     *)
(***************************************************************************)
\* the position of the first ch in str, 0 if there is none
FirstIndex(str, ch) ==
    IF \E i \in DOMAIN str : str[i] = ch
    THEN CHOOSE i \in DOMAIN str : str[i] = ch /\ \A j \in 1..(i - 1) : str[j] # ch
    ELSE 0

RECURSIVE SplitPattern(_, _, _)
\* str::split with a string pattern: acc is the piece being read
SplitPattern(str, pat, acc) ==
    IF str = <<>> THEN <<acc>>
    ELSE IF starts_with(str, pat)
         THEN <<acc>> \o SplitPattern(SubSeq(str, Len(pat) + 1, Len(str)), pat, <<>>)
         ELSE SplitPattern(Tail(str), pat, Append(acc, Head(str)))

Res_resolved == <<"r","e","s","o","l","v","e","d">>
Res_unresolved == <<"u","n">> \o Res_resolved
ItemSep == <<"\n","-"," ">>

CaseFile_from_str(str) ==
    LET bar == FirstIndex(str, "|")
        name == SubSeq(str, 1, bar - 1)
        rest == SubSeq(str, bar + 1, Len(str))
        nl == FirstIndex(rest, "\n")
        resolution == SubSeq(rest, 1, nl - 1)
        items == SubSeq(rest, nl + 1, Len(rest))
    IN  IF bar = 0 THEN CaseFileErr("NoResolution")
        ELSE IF nl = 0 THEN CaseFileErr("NoNewline")
        ELSE IF resolution = Res_resolved
             THEN CaseFile(name, TRUE, SplitPattern(items, ItemSep, <<>>))
        ELSE IF resolution = Res_unresolved
             THEN CaseFile(name, FALSE, SplitPattern(items, ItemSep, <<>>))
        ELSE CaseFileErr("BadResolution")

\* casefile texts: a name, a bar, a resolution and up to MaxItems item
\* lines, with or without the line feed after the last line, and texts
\* that lack the bar or the line feed
CaseNames == {<<"F","o","o">>, <<>>}
CaseResolutions == {Res_resolved, Res_unresolved, <<"o","p","e","n">>}
CaseItems == {<<"A","m","o","n","g"," ","u","s">>, <<"b">>}

RECURSIVE ItemLines(_)
ItemLines(k) ==
    IF k = 0 THEN {<<>>}
    ELSE {<<"-"," ">> \o i \o <<"\n">> \o l : i \in CaseItems, l \in ItemLines(k - 1)}

CaseBodies == UNION {ItemLines(k) : k \in 0..MaxItems}

CaseInputs ==
    {n \o <<"|">> \o r \o <<"\n">> \o b : n \in CaseNames, r \in CaseResolutions, b \in CaseBodies}
    \cup {n \o <<"|">> \o r \o <<"\n">> \o SubSeq(b, 1, Len(b) - 1) :
            n \in CaseNames, r \in CaseResolutions, b \in CaseBodies \ {<<>>}}
    \cup {<<"F","o","o">>, <<"F","o","o","|">> \o Res_resolved}

InitCase ==
    /\ WorldInit
    /\ pc = "case"
    /\ text \in CaseInputs
    /\ actor = CAMILA
    /\ origin = "PublicChannel"
    /\ modq = "none"
    /\ cmd = NoCmd
    /\ gated = NoCmd
    /\ s = <<>>
    /\ parsed = NotCalled

\* text.parse::<CaseFile>()
CaseParse ==
    /\ pc = "case"
    /\ casefile = NotParsed
    /\ casefile' = CaseFile_from_str(text)
    /\ UNCHANGED <<pc, text, actor, origin, modq, cmd, result, worldVars, log, fault, gated,
                   timeVars, fnVars, blacklist, task, cases, cf, data>>

NextCase == CaseParse

SpecCase == InitCase /\ [][NextCase]_vars

(***************************************************************************)
(* Properties                                                              *)
(***************************************************************************)
Privileged == {"Ban", "Mute", "Notice"}

\* parse_from_message has run for the message in hand
AfterParse == pc \in {"exec", "done", "aborted"}

HasOp(l, op) == \E i \in DOMAIN l : l[i].op = op
OpsOf(l) == [i \in DOMAIN l |-> l[i].op]

\* no ban, no mute and no notice broadcast among the effects
NoPrivilegedEffect(l) ==
    \A i \in DOMAIN l : l[i].op \notin {"ban", "mute"} /\ l[i].tmpl # "Notice"

Moderator == <<"m","o","d","e","r","a","t","o","r">>
Sp == <<" ">>

\* C1: for a message of an actor who is not a moderator (the check is
\* negative or failed), parse_from_message returns none of Ban, Mute, Notice,
\* handling the message performs no ban, mute or notice broadcast, and a
\* well-formed privileged command becomes NotValid whose rejection message
\* contains the word "moderator".
C1_NotModerator ==
    \/ modq \in {"user_err", "role_err"}
    \/ actor \notin Staff \cup {CAMILA}

C1_NonModeratorNeverPrivileged ==
    (AfterParse /\ C1_NotModerator) =>
        /\ cmd.kind \notin Privileged
        /\ NoPrivilegedEffect(log)
        /\ QueriesMod(text) =>
             /\ cmd.kind = "NotValid"
             /\ (pc = "done" /\ result = "ok") =>
                  /\ Len(log) = 1
                  /\ log[1].op = "say" /\ log[1].tmpl = "NotValid"
                  /\ Contains(NotValidText(log[1].arg), Moderator)

C1_Witness ==
    /\ pc = "done" /\ result = "ok"
    /\ actor = PlainUser
    /\ text = W_ban \o Sp \o A_member \o Sp \o A_stop
    /\ cmd = NotValid(NotAModerator)
    /\ Len(log) = 1 /\ log[1].tmpl = "NotValid"

\* C2: parse_from_message is total: it returns a Command for every text and
\* actor and never panics; a ban or mute command with too few tokens is
\* encoded as NotValid or NotACommand.
CommandKinds ==
    {"Ban", "Mute", "Notice", "PrivateModMessage", "Xkcd", "DontAskToAsk", "Help",
     "Suggestion", "NotValid", "NotACommand", "Dev", "CoinFlip", "RandomInt"}

C2_ParseIsTotal ==
    AfterParse =>
        /\ cmd.kind \in CommandKinds
        /\ result # "panic"
        /\ text \in {W_ban, W_mute, W_mute \o Sp \o A_member}
             => cmd.kind \in {"NotValid", "NotACommand"}

\* C3: a text that does not start with the prefix parses to NotACommand, and
\* executing NotACommand sends nothing and changes nothing on the platform.
C3_NoPrefix == text = <<>> \/ text[1] # "-"

C3_NotACommandIsSilent ==
    [][C3_NoPrefix =>
         /\ pc = "parse" => cmd' = NotACommand
         /\ pc = "exec" =>
              /\ cmd = NotACommand
              /\ log' = <<>>
              /\ result' = "ok"
              /\ UNCHANGED worldVars]_vars

C3_Witness ==
    /\ pc = "done" /\ result = "ok"
    /\ text = W_hello \o Sp \o A_member
    /\ cmd = NotACommand
    /\ log = <<>>

\* C4: both gates only downgrade: the result is the input or NotValid.  For a
\* non-moderator requires_mod turns Ban, Mute, Notice into NotValid and
\* returns every other variant unchanged; for a moderator it returns every
\* command unchanged.
C4_IsModerator == modq = "ok" /\ actor \in Staff \cup {CAMILA}

C5_FailsClosed ==
    (AfterParse /\ modq \in {"user_err", "role_err"}) =>
        /\ cmd = NotValid(NotAModerator)
        /\ NoPrivilegedEffect(log)
        /\ LET r == shard_user_is_mod(actor, modq, Staff \cup {CAMILA})
           IN  ~(r.ok /\ r.val)

C5_Witness ==
    /\ pc = "done"
    /\ actor = ModUser /\ modq = "role_err"
    /\ text = W_ban \o Sp \o A_member
    /\ cmd = NotValid(NotAModerator)
    /\ PlainUser \in guild

\* C6: a message whose leading token is dev parses to
\* NotValid("User is not the dev!") for every actor but the developer, and
\* to Dev(action) for the developer.
C6_LeadIsDev ==
    /\ Len(text) >= 4
    /\ SubSeq(text, 1, 4) = <<"-", "d", "e", "v">>
    /\ Len(text) > 4 => text[5] = " "

C6_Action == IF Len(text) > 5 THEN SubSeq(text, 6, Len(text)) ELSE <<>>

C6_DevGate ==
    (AfterParse /\ C6_LeadIsDev) =>
        IF actor = CAMILA THEN cmd = Dev(C6_Action) ELSE cmd = NotValid(NotTheDev)

C6_Witness ==
    /\ pc = "done" /\ result = "ok"
    /\ actor = ModUser
    /\ text = W_dev \o Sp \o A_stop
    /\ cmd = NotValid(NotTheDev)
    /\ OpsOf(log) = <<"say">>

\* C7: executing Ban for a target who is a guild member, with no gateway
\* request failing on its own, performs the ban, then the DM to the banned
\* user, then the confirmation to the channel, and succeeds; if the member
\* lookup or the ban fails, nothing is sent.
C7_BanThenDmThenConfirm ==
    [][(pc = "exec" /\ cmd.kind = "Ban") =>
         /\ (cmd.user \in guild /\ fault' = 0) =>
              /\ result' = "ok"
              /\ OpsOf(log') = <<"ban", "dm", "say">>
              /\ log'[1].user = cmd.user
              /\ log'[2].user = cmd.user /\ log'[2].tmpl = "BanDM"
              /\ log'[3].tmpl = "BanConfirm"
         /\ ~HasOp(log', "ban") => log' = <<>>]_vars

\* C8: when the ban succeeded and the DM to the banned user failed, the ban
\* is in effect and execute_command returns the error.
C8_DmFailureKeepsBan ==
    (pc = "done" /\ cmd.kind = "Ban" /\ HasOp(log, "ban") /\ ~HasOp(log, "dm")) =>
        /\ result = "err"
        /\ cmd.user \in banned
        /\ cmd.user \notin guild

C8_Witness ==
    /\ pc = "done" /\ result = "err"
    /\ cmd.kind = "Ban" /\ cmd.user = PlainUser
    /\ OpsOf(log) = <<"ban">>
    /\ PlainUser \in banned

\* C9: executing Mute with no gateway failure performs the disable action,
\* one DM to the target and one confirmation to the channel, in this order,
\* and nothing else; if the expiry, the member lookup or the disable call
\* fails, nothing is sent.  Stated for the mutes that carry a reason.
C9_MuteSendsOneDmOneConfirmation ==
    (pc = "done" /\ cmd.kind = "Mute" /\ cmd.text # <<>>) =>
        /\ (HasOp(log, "mute") /\ fault = 0) =>
             /\ result = "ok"
             /\ OpsOf(log) = <<"mute", "dm", "say">>
        /\ ~HasOp(log, "mute") => log = <<>>

\* C10: for a string of <number><unit> pairs, at most one per unit of
\* s, m, h, d, in any order, each number in 0..255, Time::from_str succeeds;
\* the field of each unit present holds its number and the others are zero.
C10_Bad == <<[n |-> -1, u |-> "?"]>>

RECURSIVE C10_Value(_)
C10_Value(digs) ==
    IF digs = <<>> THEN 0
    ELSE 10 * C10_Value(SubSeq(digs, 1, Len(digs) - 1)) + DigitVal(digs[Len(digs)])

RECURSIVE C10_Pairs(_, _, _)
\* the pairs of a string of the grammar (digit+ unit)*, C10_Bad for any other
C10_Pairs(str, digs, acc) ==
    IF str = <<>> THEN (IF digs = <<>> THEN acc ELSE C10_Bad)
    ELSE IF IsDigit(Head(str)) THEN C10_Pairs(Tail(str), Append(digs, Head(str)), acc)
    ELSE IF Head(str) \in {"s", "m", "h", "d"} /\ digs # <<>>
         THEN C10_Pairs(Tail(str), <<>>, Append(acc, [n |-> C10_Value(digs), u |-> Head(str)]))
    ELSE C10_Bad

C10_WellFormed(str) ==
    LET ps == C10_Pairs(str, <<>>, <<>>)
    IN  /\ \A i \in DOMAIN ps : ps[i].n \in 0..255
        /\ \A i, j \in DOMAIN ps : i # j => ps[i].u # ps[j].u

C10_Field(str, u) ==
    LET ps == C10_Pairs(str, <<>>, <<>>)
    IN  IF \E i \in DOMAIN ps : ps[i].u = u
        THEN ps[CHOOSE i \in DOMAIN ps : ps[i].u = u].n
        ELSE 0

C10_PairsParse ==
    (parsed # NotCalled /\ C10_WellFormed(s)) =>
        /\ parsed.ok
        /\ parsed.time = [seconds |-> C10_Field(s, "s"), minutes |-> C10_Field(s, "m"),
                          hours |-> C10_Field(s, "h"), days |-> C10_Field(s, "d")]

C10_Witness ==
    /\ s = <<"2", "h", "3", "0", "m">>
    /\ parsed = TimeOk([seconds |-> 0, minutes |-> 30, hours |-> 2, days |-> 0])

\* C11: for a duration string whose last character is alphabetic and is not
\* one of s, m, h, d, Time::from_str fails with InvalidTimeSpecifier carrying
\* that character.
C11_LastIsUnknownUnit ==
    /\ s # <<>>
    /\ is_alphabetic(s[Len(s)])
    /\ s[Len(s)] \notin {"s", "m", "h", "d"}

C11_UnknownUnitIsRejected ==
    (parsed # NotCalled /\ C11_LastIsUnknownUnit) =>
        /\ ~parsed.ok
        /\ parsed.err = "InvalidTimeSpecifier"
        /\ parsed.chr = s[Len(s)]

\* C12: Time::from_str drops no malformed part: a run without a trailing unit
\* fails with NoTimeSpecifier, a run whose number part is not made of digits
\* only or exceeds 255 fails with ParseIntError; so when it succeeds, the
\* input is a string of runs of digits each followed by one unit marker.
C12_NoUnit == <<"7">>
C12_TooLarge == <<"2", "5", "6", "s">>
C12_NotDigits == <<"1", "-", "2", "s">>

C12_NoMalformedPartAccepted ==
    (parsed # NotCalled) =>
        /\ s = C12_NoUnit => (~parsed.ok /\ parsed.err = "NoTimeSpecifier")
        /\ s \in {C12_TooLarge, C12_NotDigits, <<"s">>}
             => (~parsed.ok /\ parsed.err = "ParseIntError")
        /\ parsed.ok => C10_Pairs(s, <<>>, <<>>) # C10_Bad

\* C13: the classifier is total and case-insensitive and implements the
\* synonym table: every listed token, optin, optout and keke included, maps
\* to its own kind, every other token to NotValid; on a whole message text
\* it returns the kind of the leading token after the prefix.
C13_Synonyms ==
    {<<Kw_ban, "Ban">>, <<Kw_mute, "Mute">>, <<Kw_notice, "Notice">>,
     <<Kw_private, "PrivateModMessage">>, <<Kw_pvm, "PrivateModMessage">>,
     <<Kw_xkcd, "Xkcd">>, <<Kw_dontasktoask, "DontAskToAsk">>, <<Kw_da2a, "DontAskToAsk">>,
     <<Kw_help, "Help">>, <<Kw_suggest, "Suggestion">>, <<Kw_dev, "Dev">>,
     <<Kw_coinflip, "CoinFlip">>, <<Kw_flip, "CoinFlip">>,
     <<Kw_randint, "RandomInt">>, <<Kw_rand, "RandomInt">>,
     <<Tok_optin, "Optin">>, <<Tok_optout, "Optout">>, <<Tok_keke, "Keke">>}

\* the leading token of the text after the prefix, in lower case
C13_Token ==
    LET body == IF text # <<>> /\ Head(text) = "-" THEN Tail(text) ELSE text
        stop == {i \in 1..Len(body) : body[i] \in {" ", "\n"}}
        last == IF stop = {} THEN Len(body)
                ELSE (CHOOSE i \in stop : \A j \in stop : i <= j) - 1
    IN  to_lowercase(SubSeq(body, 1, last))

C13_ClassifierTable ==
    (ctype # "NotCalled") =>
        IF \E p \in C13_Synonyms : p[1] = C13_Token
        THEN \E p \in C13_Synonyms : p[1] = C13_Token /\ ctype = p[2]
        ELSE ctype = "NotValid"

\* C14: xkcd_from_string is total: a text that parses as an unsigned number
\* yields the number; otherwise each alias of the table, in any letter case,
\* yields its comic id ("os" -> 272 included), and any other text yields 404.
C14_Aliases ==
    {<<Xk_tautology, 703>>, <<Xk_tautological, 703>>, <<Xk_honor_society, 703>>,
     <<Xk_python, 353>>, <<Xk_import_antigravity, 353>>, <<Xk_antigravity, 353>>,
     <<Xk_haskell, 1312>>, <<Xk_side_effects, 1312>>, <<Xk_trolley_problem, 1455>>,
     <<Xk_linux, 272>>, <<<<"o", "s">>, 272>>}

\* the digits of the text, after the sign that an unsigned number may carry
C14_Digits == IF text # <<>> /\ Head(text) = "+" THEN Tail(text) ELSE text

C14_IsNumber == C14_Digits # <<>> /\ \A i \in DOMAIN C14_Digits : IsDigit(C14_Digits[i])

C14_XkcdTable ==
    (comic # -1) =>
        IF C14_IsNumber THEN comic = C10_Value(C14_Digits)
        ELSE IF \E p \in C14_Aliases : p[1] = to_lowercase(text)
        THEN \E p \in C14_Aliases : p[1] = to_lowercase(text) /\ comic = p[2]
        ELSE comic = 404

\* C15: for every bound n that the parser accepts, "-randint n" of any actor
\* parses to RandomInt(n), and executing it sends exactly one message, whose
\* number v satisfies 0 <= v < n.
C15_Bound == CHOOSE n \in 0..(MaxBound + 1) : text = W_randint \o <<" ">> \o Decimal(n)

C15_Asked ==
    /\ pc = "done"
    /\ \E n \in 0..MaxBound : text = W_randint \o <<" ">> \o Decimal(n)

C15_OneMessage ==
    /\ Len(log) = 1
    /\ log[1].op = "say" /\ log[1].tmpl = "RandomInt"

C16_Tokens == split(text, {" "})

C16_IsBan ==
    /\ AfterParse
    /\ modq = "ok" /\ actor \in Staff \cup {CAMILA}
    /\ Len(C16_Tokens) >= 2
    /\ C16_Tokens[1] = W_ban

C16_IsId(tok) == tok # <<>> /\ \A i \in DOMAIN tok : IsDigit(tok[i])

C16_BanReasonExcludesId ==
    C16_IsBan =>
        IF C16_IsId(C16_Tokens[2])
        THEN cmd = Ban(C10_Value(C16_Tokens[2]),
                       JoinSpace(SubSeq(C16_Tokens, 3, Len(C16_Tokens))))
        ELSE cmd = NotValid(NotAUserId)

\* C17: the persisted blacklist never holds the same identifier twice
\* (adding an identifier that is already listed leaves the list unchanged).
C17_NoIdentifierTwice ==
    LET l == lines(blacklist)
    IN  \A i, j \in DOMAIN l : l[i] = l[j] => i = j

\* C18: read-modify-write sequences on the blacklist are serialized: a
\* write of one handler keeps every identifier that the file holds, so when
\* two handlers add concurrently both additions are present at the end and
\* no update is lost.
C18_NoLostUpdate ==
    [][Range(lines(blacklist)) \subseteq Range(lines(blacklist'))]_vars

\* the lowest non-negative integer that no stored casefile uses
C19_LowestFree(used) ==
    CHOOSE n \in 0..Cardinality(used) : n \notin used /\ \A m \in 0..(n - 1) : m \in used

C20_Remainder(str) ==
    IF starts_with(to_lowercase(str), W_im) THEN SubSeq(str, Len(W_im) + 1, Len(str))
    ELSE IF starts_with(to_lowercase(str), W_iam) THEN SubSeq(str, Len(W_iam) + 1, Len(str))
    ELSE str

C20_HasPrefix == C20_Remainder(text) # text

C20_Renames == SelectSeq(log, LAMBDA e : e.op = "nick")
C20_Announcements == SelectSeq(log, LAMBDA e : e.tmpl \in {"KekeIs", "KekeIsNot"})

\* C20: once the nickname override has run, the actor has been renamed
\* exactly when the actor is opted in, the text begins with "i'm " or
\* "i am " in any letter case and the remainder has at most 32 characters,
\* and the nickname is that remainder; an opted-in actor's text without
\* the prefix causes no rename and no announcement, and an over-length
\* remainder causes the negative announcement without a rename.
C20_KekeRenamesToRemainder ==
    pc = "parse" =>
      IF actor \in OptedIn /\ C20_HasPrefix
      THEN IF Len(C20_Remainder(text)) <= NickLimit
           THEN /\ Len(C20_Renames) = 1
                /\ C20_Renames[1].user = actor
                /\ C20_Renames[1].arg = C20_Remainder(text)
           ELSE /\ C20_Renames = <<>>
                /\ Len(C20_Announcements) = 1
                /\ C20_Announcements[1].tmpl = "KekeIsNot"
      ELSE C20_Renames = <<>> /\ C20_Announcements = <<>>

C21_Relays == SelectSeq(log, LAMBDA e : e.tmpl = "RelayDM")

\* C21: when the command is about to be parsed, a message of a private
\* channel has had its full text relayed once to CAMILA, whatever the text
\* parses to, and a message of a public channel has not been relayed.
C21_PrivateMessageRelayedOnce ==
    pc = "parse" =>
      IF origin = "PrivateChannel"
      THEN /\ Len(C21_Relays) = 1
           /\ C21_Relays[1].op = "dm"
           /\ C21_Relays[1].user = CAMILA
           /\ C21_Relays[1].arg = text
      ELSE C21_Relays = <<>>

\* the text is "<name>|<resolved or unresolved>" and then one line "- <item>"
\* per item
C22_Head == SubSeq(text, 1, FirstIndex(text, "\n") - 1)
C22_ItemLines == lines(SubSeq(text, FirstIndex(text, "\n") + 1, Len(text)))
C22_Name == SubSeq(C22_Head, 1, FirstIndex(C22_Head, "|") - 1)
C22_Resolution == SubSeq(C22_Head, FirstIndex(C22_Head, "|") + 1, Len(C22_Head))

C22_WellFormed ==
    /\ FirstIndex(text, "\n") > 0
    /\ FirstIndex(C22_Head, "|") > 0
    /\ C22_Resolution \in {Res_resolved, Res_unresolved}
    /\ \A i \in DOMAIN C22_ItemLines : starts_with(C22_ItemLines[i], <<"-"," ">>)

\* C22: parsing a text of that form succeeds and gives the name, the
\* matching resolved flag, and the item texts in order without the "- "
\* marker and without line breaks.
C22_ParsesCaseFile ==
    (pc = "case" /\ casefile # NotParsed /\ C22_WellFormed) =>
      /\ casefile.ok
      /\ casefile.name = C22_Name
      /\ casefile.resolved = (C22_Resolution = Res_resolved)
      /\ casefile.items = [i \in DOMAIN C22_ItemLines |->
                         SubSeq(C22_ItemLines[i], 3, Len(C22_ItemLines[i]))]

C23_HasTmpl(l, tmpl) == \E i \in DOMAIN l : l[i].tmpl = tmpl

\* the ban, or the mute with its reason message, was performed and the DM
\* to the target was not delivered
C23_DmFailed ==
    /\ pc = "done"
    /\ result # "panic"
    /\ \/ cmd.kind = "Ban" /\ HasOp(log, "ban")
       \/ cmd.kind = "Mute" /\ HasOp(log, "mute") /\ C23_HasTmpl(log, "MuteReason")
    /\ ~HasOp(log, "dm")

\* C23: a failure to deliver the DM after a ban or a mute is swallowed: the
\* command goes on to its confirmation in the channel, and the failure shows
\* in no message.
C23_DmFailureIsSwallowed ==
    C23_DmFailed =>
      /\ C23_HasTmpl(log, IF cmd.kind = "Ban" THEN "BanConfirm" ELSE "MuteConfirm")
      /\ \A i \in DOMAIN log : log[i].op \in {"ban", "mute"} \/ log[i].tmpl \in {"MuteReason", "BanConfirm", "MuteConfirm"}

\* the seconds of a duration
C24_Seconds(time) ==
    time.seconds + 60 * time.minutes + 3600 * time.hours + 86400 * time.days

\* C24: a mute never ends in an arithmetic panic, and the expiry it sets is
\* now + (seconds + 60*minutes + 3600*hours + 86400*days) seconds, no
\* product having wrapped.
C24_ExpiryIsExactSum ==
    (pc = "done" /\ cmd.kind = "Mute") =>
      /\ result # "panic"
      /\ \A i \in DOMAIN log : log[i].op = "mute" => log[i].num = C24_Seconds(cmd.time)

C25_Stops == {<<"s","t","o","p">>, <<"h","a","l","t">>}

\* C25: the process is terminated only by executing Dev(action) with action
\* "stop" or "halt", hence for a message of CAMILA, and after the attempt to
\* send the farewell; executing Dev with another action sends nothing,
\* changes nothing and succeeds.
C25_OnlyDevStopTerminates ==
    [][pc = "exec" =>
         /\ HasOp(log', "abort") <=> pc' = "aborted"
         /\ pc' = "aborted" =>
              /\ cmd.kind = "Dev" /\ cmd.text \in C25_Stops
              /\ actor = CAMILA
              /\ OpsOf(log') \in {<<"say", "abort">>, <<"abort">>}
              /\ Len(log') = 2 => log'[1].tmpl = "ShuttingDown"
         /\ (cmd.kind = "Dev" /\ cmd.text \notin C25_Stops) =>
              /\ log' = <<>>
              /\ result' = "ok"
              /\ pc' = "done"
              /\ UNCHANGED worldVars]_vars

C25_Witness ==
    /\ pc = "aborted"
    /\ actor = CAMILA
    /\ text = W_dev \o Sp \o <<"h","a","l","t">>
    /\ OpsOf(log) = <<"say", "abort">>

\* C26: the developer is a moderator whatever the lookups return, a failed
\* lookup included, so no command of CAMILA is denied by the moderator gate.
C26_DevIsAlwaysMod ==
    (AfterParse /\ actor = CAMILA) =>
        /\ user_is_mod(actor, IF modq = "none" THEN "ok" ELSE modq)
        /\ cmd # NotValid(NotAModerator)

\* C27: executing Suggestion(text) first sends the DM with the text to
\* CAMILA and then the confirmation to the channel; the confirmation is not
\* sent when the DM failed, and the command succeeds exactly when both
\* were sent.
C27_SuggestionDmThenConfirm ==
    (pc = "done" /\ cmd.kind = "Suggestion") =>
        /\ OpsOf(log) \in {<<>>, <<"dm">>, <<"dm", "say">>}
        /\ log # <<>> =>
             /\ log[1].user = CAMILA
             /\ log[1].tmpl = "SuggestionDM"
             /\ log[1].arg = cmd.text
        /\ Len(log) = 2 => log[2].tmpl = "SuggestionSent"
        /\ (result = "ok") <=> (Len(log) = 2)

C27_Witness ==
    /\ pc = "done" /\ result = "ok"
    /\ cmd = Suggestion(A_stop)
    /\ actor = PlainUser
    /\ OpsOf(log) = <<"dm", "say">>

\* the items of a stored casefile as a read returns them
C28_Items(rows, id) == lines(rows[id])

\* the step was an AddItem or a RemoveItem on a stored casefile
C28_Acted(op) == cf'.op = op /\ cf' # cf /\ cf'.id \in cases

\* C28: on a stored casefile, an AddItem makes the items read afterwards
\* the items read before with the new item at the end; a RemoveItem makes
\* them the items read before without the removed one (the last one when no
\* index is given); a RemoveItem whose index is outside the list leaves the
\* stored items unchanged and does not crash.
C28_ItemsFollowReference ==
    [][/\ C28_Acted("add") =>
            C28_Items(data', cf'.id) = Append(C28_Items(data, cf'.id), cf'.item)
       /\ C28_Acted("remove") =>
            LET before == C28_Items(data, cf'.id)
                index  == IF cf'.index = NoIndex THEN Len(before) - 1 ELSE cf'.index
            IN  /\ cf'.res # "panic"
                /\ C28_Items(data', cf'.id) =
                     IF index >= 0 /\ index < Len(before) THEN remove(before, index) ELSE before
      ]_vars

\* C29: a message that the bot sent itself, delivered back to the handler,
\* is no command and causes no relay, no reply and no action.
C29_OwnMessagesCauseNothing ==
    (actor = BOT /\ pc \in {"exec", "done", "aborted"}) =>
        /\ cmd = NotACommand
        /\ log = <<>>

\* C30: parse_from_message returns NotACommand exactly for the texts that do
\* not start with the prefix; every text that starts with the prefix yields a
\* command other than NotACommand (the prefix alone and the prefix followed by
\* white space yield NotValid with the text "couldn't parse").
C30_HasPrefix == starts_with(text, PREFIX)

C30_PrefixedTextIsACommand ==
    AfterParse =>
        /\ ~C30_HasPrefix => cmd = NotACommand
        /\ C30_HasPrefix =>
             /\ cmd.kind \in CommandKinds \ {"NotACommand"}
             /\ result # "panic"
        /\ text \in {W_prefix, W_prefix \o Sp \o A_stop} => cmd = NotValid(CouldntParse)

====
